---- MODULE Spec2Model ----
(***************************************************************************)
(* Verification model of the code samples of the blog repository:          *)
(*   - back_emplace_iterator, an output iterator adapter that forwards a   *)
(*     tuple of constructor arguments to Container::emplace_back, and its  *)
(*     drivers (emplace_back_iterator sample);                             *)
(*   - the consteval fold-expression helpers over template parameter packs *)
(*     (template_metaprogramming_helpers.cpp).                             *)
(***************************************************************************)
EXTENDS Integers, Sequences, FiniteSets, TLC

(***************************************************************************)
(* Bounds of the model.                                                    *)
(***************************************************************************)
\* number of named strings in the Tasks vector
NumTasks == 2
\* number of assignments made through the adapters in one run
MaxAssign == 2
\* number of adapter objects alive at once (the original and its copies)
MaxIts == 2
\* number of concurrent execution contexts, one per input item
NumThreads == 3
\* length of a template parameter pack
MaxPack == 3
\* number of characters written to the stringstream of fn_object
MaxData == 3
\* largest num_of_tasks the two do_tasks functions are called with
MaxNumOfTasks == 11

\* the deques the program owns; an adapter is bound to one of them
ContainerIds == {1, 2}

\* number of constructor parameters of ProgressBar
Arity == 2

(***************************************************************************)
(* Strings are sequences of characters.                                    *)
(***************************************************************************)
Digit(d) == <<"0", "1", "2", "3", "4", "5", "6", "7", "8", "9">>[d + 1]

RECURSIVE to_string(_)
to_string(i) ==
    IF i < 10 THEN <<Digit(i)>> ELSE to_string(i \div 10) \o <<Digit(i % 10)>>

\* Tasks get_tasks(size_t): "task" + std::to_string(i++) for i = 0 .. n-1
get_tasks_preincrement(num_of_tasks) ==
    [i \in 1..num_of_tasks |-> <<"t", "a", "s", "k">> \o to_string(i)]

get_tasks(num_of_tasks) ==
    [i \in 1..num_of_tasks |-> <<"t", "a", "s", "k">> \o to_string(i - 1)]

\* the value std::cout.rdbuf() returns
cout_rdbuf == "cout_rdbuf"

\* state of a std::string after it was moved from
MovedFromString == <<>>

(***************************************************************************)
(* State.                                                                  *)
(***************************************************************************)
VARIABLES
    tasks,     \* the named strings of the Tasks vector
    bars,      \* bars[c]: contents of deque c, a sequence of ProgressBar
    its,       \* the adapter objects; its[1] is the one back_emplacer made
    target,    \* the container back_emplacer was called with
    fed,       \* log of the bundles assigned so far, in order
    last,      \* the last operation applied to an adapter and its result
    pc,        \* pc[t]: where execution context t is inside emplace_back
    cur,       \* cur[t]: the finish position context t has read
    storage,   \* the element slots of the deque the contexts share
    finish,    \* number of elements the shared deque reports
    pack,      \* the template parameter pack Args...
    mres,      \* the helper instantiated last and what its evaluation did
    value,     \* fn_object.value: the characters the stringstream holds
    wres,      \* the last call of wrapper and what it observed
    first,     \* std::transform: index of the input item it is at
    tpc,       \* std::transform: the statement of its loop body it is at
    loop       \* the range-for of do_tasks_for_loop: index of the item it is at

seqVars == <<tasks, bars, its, target, fed, last>>
parVars == <<pc, cur, storage, finish>>
metaVars == <<pack, mres>>
fwdVars == <<value, wres>>
doVars == <<first, tpc, loop>>

(***************************************************************************)
(* Argument bundles.  A bundle is a std::tuple handed to operator=; cat is *)
(* the value category of the tuple expression itself, and each element is  *)
(* an owned value (std::make_tuple), an lvalue reference (std::tie) or an  *)
(* rvalue reference (std::forward_as_tuple(std::move(x))).  Element 1 is   *)
(* the stream buffer pointer, element 2 the prefix string taken from       *)
(* tasks[src].                                                             *)
(***************************************************************************)
Categories == {"lvalue", "rvalue"}
Kinds == {"value", "lref", "rref"}

Bundles ==
    [cat : Categories, kind : [1..Arity -> Kinds], src : 1..NumTasks]

\* value held by (or referred to by) element I of the bundle
ElemVal(b, I) == IF I = 1 THEN cout_rdbuf ELSE tasks[b.src]

\* the constructor arguments a bundle stands for, in declared order
BundleVals(b) == [I \in 1..Arity |-> ElemVal(b, I)]

\* std::get<I>(std::forward<Tuple>(t)) followed by
\* std::forward<decltype(args)>(args): reference collapsing
get_category_always_lvalue(cat, kind) == "lvalue"

get_category_always_rvalue(cat, kind) == "rvalue"

get_category(cat, kind) ==
    CASE kind = "lref" -> "lvalue"
      [] kind = "rref" -> cat
      [] kind = "value" -> cat

\* std::apply(f, std::forward<Tuple>(tuple_args)): the argument list f gets
std_apply_reversed(tuple_args) ==
    [I \in 1..Arity |->
        [val |-> ElemVal(tuple_args, Arity + 1 - I),
         cat |-> get_category(tuple_args.cat, tuple_args.kind[Arity + 1 - I])]]

std_apply(tuple_args) ==
    [I \in 1..Arity |->
        [val |-> ElemVal(tuple_args, I),
         cat |-> get_category(tuple_args.cat, tuple_args.kind[I])]]

\* ProgressBar(std::streambuf *buffer, std::string prefix): each member is
\* initialised from its parameter; how records whether the parameter was
\* bound to an rvalue (move) or an lvalue (copy)
ProgressBar(args) ==
    [I \in 1..Arity |->
        [val |-> args[I].val,
         how |-> IF args[I].cat = "rvalue" THEN "move" ELSE "copy"]]

\* std::deque::emplace_back: a new trailing element, or no effect when the
\* construction throws
emplace_back_front(c, args, ok) ==
    IF ok THEN <<ProgressBar(args)>> \o c ELSE c

emplace_back_grow_first(c, args, ok) ==
    IF ok THEN Append(c, ProgressBar(args))
    ELSE Append(c, [I \in 1..Arity |-> [val |-> MovedFromString, how |-> "copy"]])

emplace_back_clear_on_throw(c, args, ok) ==
    IF ok THEN Append(c, ProgressBar(args)) ELSE <<>>

emplace_back(c, args, ok) ==
    IF ok THEN Append(c, ProgressBar(args)) ELSE c

\* how a call of emplace_back ends: the element is constructed, or the
\* construction throws before or after the by-value parameter was initialised
Outcomes == {"ok", "throw", "throw_after_move"}

\* the named strings after the constructor call: a std::string bound to an
\* rvalue parameter is moved from; a value owned by the tuple is not one of
\* the named strings
AfterCall(b, args, outcome) ==
    IF b.kind[2] # "value" /\ args[2].cat = "rvalue" /\ outcome # "throw"
    THEN [tasks EXCEPT ![b.src] = MovedFromString]
    ELSE tasks

(***************************************************************************)
(* back_emplace_iterator                                                   *)
(***************************************************************************)
\* explicit back_emplace_iterator(Container &container)
back_emplace_iterator(container) == [m_container |-> container]

\* back_emplacer(Container &c)
back_emplacer(c) == back_emplace_iterator(c)

NoOp == [op |-> "none", it |-> 0, ret |-> 0, threw |-> FALSE]

SeqInitWith(num_of_tasks) ==
    /\ tasks = get_tasks(num_of_tasks)
    /\ bars = [c \in ContainerIds |-> <<>>]
    /\ target = CHOOSE c \in ContainerIds : \A d \in ContainerIds : c <= d
    /\ its = <<back_emplacer(target)>>
    /\ fed = <<>>
    /\ last = NoOp

\* back_emplace_iterator &operator*()
operator_deref(i) ==
    /\ i \in 1..Len(its)
    /\ last' = [op |-> "deref", it |-> i, ret |-> i, threw |-> FALSE]
    /\ UNCHANGED <<tasks, bars, its, target, fed>>

\* back_emplace_iterator &operator++()
preinc_advance(it) == [m_container |-> (it.m_container % Cardinality(ContainerIds)) + 1]

preinc(it) == it

operator_preinc(i) ==
    /\ i \in 1..Len(its)
    /\ its' = [its EXCEPT ![i] = preinc(its[i])]
    /\ last' = [op |-> "preinc", it |-> i, ret |-> i, threw |-> FALSE]
    /\ UNCHANGED <<tasks, bars, target, fed>>

\* back_emplace_iterator operator++(int): returns a copy of *this
postinc_rebound(it) == [m_container |-> (it.m_container % Cardinality(ContainerIds)) + 1]

postinc(it) == [m_container |-> it.m_container]

operator_postinc(i) ==
    /\ i \in 1..Len(its)
    /\ Len(its) < MaxIts
    /\ its' = Append(its, postinc(its[i]))
    /\ last' = [op |-> "postinc", it |-> i, ret |-> Len(its) + 1, threw |-> FALSE]
    /\ UNCHANGED <<tasks, bars, target, fed>>

\* template<typename Tuple> back_emplace_iterator &operator=(Tuple &&)
operator_assign(i, tuple_args, outcome) ==
    /\ i \in 1..Len(its)
    /\ Len(fed) < MaxAssign
    /\ outcome = "throw_after_move" =>
           tuple_args.kind[2] # "lref" /\ tuple_args.cat = "rvalue"
    /\ LET args == std_apply(tuple_args)
           c == its[i].m_container
       IN /\ bars' = [bars EXCEPT ![c] = emplace_back(bars[c], args, outcome = "ok")]
          /\ tasks' = AfterCall(tuple_args, args, outcome)
    /\ fed' = Append(fed, [vals |-> BundleVals(tuple_args), ok |-> outcome = "ok"])
    /\ last' = [op |-> "assign", it |-> i, ret |-> i, threw |-> outcome # "ok",
                bundle |-> tuple_args]
    /\ UNCHANGED <<its, target>>

SeqInit == SeqInitWith(NumTasks)

(***************************************************************************)
(* std::transform under a parallel execution policy: one execution context *)
(* per input item, each assigning make_tuple(rdbuf, task) through the same *)
(* adapter.  std::deque::emplace_back is not synchronised: a context reads *)
(* the finish position, constructs the element there and publishes the     *)
(* advanced position, and the steps of different contexts interleave.      *)
(***************************************************************************)
Threads == 1..NumThreads

NoElement == <<>>

\* the bundle the transform lambda returns for input item t
make_tuple(t) == [cat |-> "rvalue", kind |-> [I \in 1..Arity |-> "value"], src |-> t]

ParInit ==
    /\ pc = [t \in Threads |-> "start"]
    /\ cur = [t \in Threads |-> 0]
    /\ storage = [k \in 1..NumThreads |-> NoElement]
    /\ finish = 0

ParIdle ==
    /\ pc = <<>>
    /\ cur = <<>>
    /\ storage = <<>>
    /\ finish = 0

\* emplace_back reads the finish cursor
ParLoad(t) ==
    /\ pc[t] = "start"
    /\ cur' = [cur EXCEPT ![t] = finish]
    /\ pc' = [pc EXCEPT ![t] = "loaded"]
    /\ UNCHANGED <<storage, finish>>

\* emplace_back constructs the element in the slot the cursor named
ParConstruct(t) ==
    /\ pc[t] = "loaded"
    /\ storage' = [storage EXCEPT ![cur[t] + 1] = ProgressBar(std_apply(make_tuple(t)))]
    /\ pc' = [pc EXCEPT ![t] = "constructed"]
    /\ UNCHANGED <<cur, finish>>

\* emplace_back publishes the advanced finish cursor
ParStore(t) ==
    /\ pc[t] = "constructed"
    /\ finish' = cur[t] + 1
    /\ pc' = [pc EXCEPT ![t] = "done"]
    /\ UNCHANGED <<cur, storage>>

\* the deque as the caller sees it after the algorithm returned
ParBars == SubSeq(storage, 1, finish)

(***************************************************************************)
(* Fold-expression helpers over a template parameter pack.  A type is its  *)
(* name; a pack or a tuple's type list is a sequence of types.             *)
(***************************************************************************)
Types == {"int", "unsigned int", "double", "std::string"}

Packs == UNION {[1..n -> Types] : n \in 0..MaxPack}

\* the predicate templates of the sample
Predicates == {"is_signed_type"}

\* std::is_signed_v<T>
is_signed_v(T) == T \in {"int", "double"}

\* is_signed_type<T>::operator bool
is_signed_type(T) == is_signed_v(T)

\* Predicate<T>() contextually converted to bool
PredicateHolds(Predicate, T) ==
    CASE Predicate = "is_signed_type" -> is_signed_type(T)

\* Predicate<T>() as an operand of + or as a size_t result: bool to integer
PredicateInt(Predicate, T) == IF PredicateHolds(Predicate, T) THEN 1 ELSE 0

\* a helper whose instantiation is ill-formed does not compile
IllFormed == [well_formed |-> FALSE]

WellFormed(v) == [well_formed |-> TRUE, value |-> v]

\* (... + Predicate<Args>()): unary left fold, ((E1 + E2) + ...) + En
RECURSIVE left_fold_plus(_, _)
left_fold_plus(Predicate, Args) ==
    IF Len(Args) = 1 THEN PredicateInt(Predicate, Args[1])
    ELSE left_fold_plus(Predicate, SubSeq(Args, 1, Len(Args) - 1))
            + PredicateInt(Predicate, Args[Len(Args)])

\* count_if<Predicate, Args...>(): a unary fold over + is ill-formed for an
\* empty pack
count_if(Predicate, Args) ==
    IF Args = <<>> THEN IllFormed ELSE WellFormed(left_fold_plus(Predicate, Args))

\* count<Args...>(): sizeof...(Args)
count(Args) == WellFormed(Len(Args))

\* (Predicate<Args>() && ...): unary right fold, E1 && (E2 && ...); true for
\* an empty pack
RECURSIVE right_fold_and(_, _)
right_fold_and(Predicate, Args) ==
    IF Args = <<>> THEN TRUE
    ELSE PredicateHolds(Predicate, Head(Args)) /\ right_fold_and(Predicate, Tail(Args))

\* (Predicate<Args>() || ...): unary right fold, E1 || (E2 || ...); false for
\* an empty pack
RECURSIVE right_fold_or(_, _)
right_fold_or(Predicate, Args) ==
    IF Args = <<>> THEN FALSE
    ELSE PredicateHolds(Predicate, Head(Args)) \/ right_fold_or(Predicate, Tail(Args))

\* all_of<Predicate, Args...>()
all_of(Predicate, Args) == WellFormed(right_fold_and(Predicate, Args))

\* any_of<Predicate, Args...>()
any_of(Predicate, Args) == WellFormed(right_fold_or(Predicate, Args))

\* none_of<Predicate, Args...>(): !any_of<Predicate, Args...>()
none_of(Predicate, Args) == WellFormed(~any_of(Predicate, Args).value)

\* the expression Func<T>(): value-initialises a temporary Func<T>; the
\* function-call operator is not named, so it is neither instantiated nor
\* called
FuncTemporary(T) == <<[ev |-> "construct", type |-> T]>>

\* (Func<Args>(), ...): fold over the comma operator, evaluated left to right
RECURSIVE comma_fold(_)
comma_fold(Args) ==
    IF Args = <<>> THEN <<>> ELSE FuncTemporary(Head(Args)) \o comma_fold(Tail(Args))

\* for_each<Func, Args...>()
for_each(Args) == comma_fold(Args)

\* for_each_tuple_type_arg<Func>(std::tuple<Args...>)
for_each_tuple_type_arg(Tuple) == comma_fold(Tuple)

\* std::make_index_sequence<N>
make_index_sequence(N) == [k \in 1..N |-> k - 1]

\* std::tuple_element_t<I, Tuple>
tuple_element_t(I, Tuple) == Tuple[I + 1]

\* for_each_tuple_type<Func, Tuple>(): the comma fold over the index sequence
for_each_tuple_type(Tuple) ==
    LET I == make_index_sequence(Len(Tuple))
    IN comma_fold([k \in 1..Len(I) |-> tuple_element_t(I[k], Tuple)])

NoHelper == [fn |-> "none"]

MetaInit ==
    /\ pack \in Packs
    /\ mres = NoHelper

MetaIdle ==
    /\ pack = <<>>
    /\ mres = NoHelper

EvalCountIf(Predicate) ==
    /\ mres' = [fn |-> "count_if", predicate |-> Predicate,
                result |-> count_if(Predicate, pack)]
    /\ UNCHANGED pack

EvalCount ==
    /\ mres' = [fn |-> "count", result |-> count(pack)]
    /\ UNCHANGED pack

EvalAllOf(Predicate) ==
    /\ mres' = [fn |-> "all_of", predicate |-> Predicate,
                result |-> all_of(Predicate, pack)]
    /\ UNCHANGED pack

EvalAnyOf(Predicate) ==
    /\ mres' = [fn |-> "any_of", predicate |-> Predicate,
                result |-> any_of(Predicate, pack)]
    /\ UNCHANGED pack

EvalNoneOf(Predicate) ==
    /\ mres' = [fn |-> "none_of", predicate |-> Predicate,
                result |-> none_of(Predicate, pack)]
    /\ UNCHANGED pack

EvalForEach ==
    /\ mres' = [fn |-> "for_each", trace |-> for_each(pack)]
    /\ UNCHANGED pack

EvalForEachTupleTypeArg ==
    /\ mres' = [fn |-> "for_each_tuple_type_arg", trace |-> for_each_tuple_type_arg(pack)]
    /\ UNCHANGED pack

EvalForEachTupleType ==
    /\ mres' = [fn |-> "for_each_tuple_type", trace |-> for_each_tuple_type(pack)]
    /\ UNCHANGED pack

(***************************************************************************)
(* Forwarding function objects: wrapper and function_object.               *)
(***************************************************************************)
\* the characters written to fn_object.value
Chars == {"a", "b", "c"}

\* std::forward<Function>(function): Function is T& for an lvalue argument
\* and T for an rvalue argument
forward_missing(arg) == "lvalue"

forward(arg) == arg

\* std::string function_object::operator()() const &: value.str() copies
call_lvalue(v) == [overload |-> "lvalue", result |-> v, value |-> v]

\* std::string function_object::operator()() &&: std::move(value).str()
\* moves the characters out of the stringstream
call_rvalue(v) == [overload |-> "rvalue", result |-> v, value |-> <<>>]

\* overload resolution on the ref-qualifier of operator()
function_object_call(cat, v) ==
    IF cat = "rvalue" THEN call_rvalue(v) ELSE call_lvalue(v)

\* ReturnType wrapper(Function&& function)
wrapper(arg, v) == function_object_call(forward(arg), v)

NoCall == [arg |-> "none"]

\* function_object fn_object{};
FwdInit ==
    /\ value = <<>>
    /\ wres = NoCall

FwdIdle ==
    /\ value = <<>>
    /\ wres = NoCall

\* fn_object.value << data
StreamWrite(ch) ==
    /\ Len(value) < MaxData
    /\ value' = Append(value, ch)
    /\ wres' = NoCall

\* auto value = wrapper(fn_object) or wrapper(std::move(fn_object))
CallWrapper(arg) ==
    LET r == wrapper(arg, value)
    IN /\ wres' = [arg |-> arg, overload |-> r.overload, result |-> r.result,
                   before |-> value]
       /\ value' = r.value

(***************************************************************************)
(* do_tasks_algorithm and do_tasks_for_loop.  The deque of the algorithm   *)
(* is the container the adapter is bound to, the deque of the range-for    *)
(* is the other one.                                                       *)
(***************************************************************************)
DoIdle ==
    /\ first = 0
    /\ tpc = "idle"
    /\ loop = 0

\* both functions have their tasks vector and an empty deque; std::transform
\* and the range-for are at the first item
\* log_progress(bars), which ends both functions, ticks and prints every bar
\* in place; it adds, removes and reorders nothing
DoInit ==
    /\ first = 1
    /\ tpc = "assign"
    /\ loop = 1

\* bars.emplace_back(std::cout.rdbuf(), task): a prvalue pointer and the
\* const reference the range-for binds
for_loop_args(task) ==
    <<[val |-> cout_rdbuf, cat |-> "rvalue"], [val |-> task, cat |-> "lvalue"]>>

\* the deque of do_tasks_for_loop
LoopBars == CHOOSE c \in ContainerIds : c # target

\* std::transform: first == last ends the loop, otherwise
\* *result = unary_op(*first) with the lambda returning make_tuple
TransformAssign ==
    /\ tpc = "assign"
    /\ IF first > Len(tasks)
       THEN /\ tpc' = "done"
            /\ UNCHANGED bars
       ELSE /\ bars' = [bars EXCEPT ![its[1].m_container] =
                           emplace_back(@, std_apply(make_tuple(first)), TRUE)]
            /\ tpc' = "increment"
    /\ UNCHANGED <<tasks, its, target, fed, last, first, loop>>

\* std::transform: ++first, ++result
TransformIncrement ==
    /\ tpc = "increment"
    /\ first' = first + 1
    /\ its' = [its EXCEPT ![1] = preinc(@)]
    /\ tpc' = "assign"
    /\ UNCHANGED <<tasks, bars, target, fed, last, loop>>

\* for(const auto &task : tasks) bars.emplace_back(std::cout.rdbuf(), task)
ForLoopBody ==
    /\ loop \in 1..Len(tasks)
    /\ bars' = [bars EXCEPT ![LoopBars] =
                   emplace_back(@, for_loop_args(tasks[loop]), TRUE)]
    /\ loop' = loop + 1
    /\ UNCHANGED <<tasks, its, target, fed, last, first, tpc>>

(***************************************************************************)
(* Specifications.                                                         *)
(***************************************************************************)
vars ==
    <<tasks, bars, its, target, fed, last, pc, cur, storage, finish, pack, mres,
      value, wres, first, tpc, loop>>

\* the adapter used from one execution context
Deref == (\E i \in 1..MaxIts : operator_deref(i)) /\ UNCHANGED <<parVars, metaVars, fwdVars, doVars>>

PreInc == (\E i \in 1..MaxIts : operator_preinc(i)) /\ UNCHANGED <<parVars, metaVars, fwdVars, doVars>>

PostInc == (\E i \in 1..MaxIts : operator_postinc(i)) /\ UNCHANGED <<parVars, metaVars, fwdVars, doVars>>

Assign ==
    /\ \E i \in 1..MaxIts, b \in Bundles, outcome \in Outcomes :
           operator_assign(i, b, outcome)
    /\ UNCHANGED <<parVars, metaVars, fwdVars, doVars>>

Init == SeqInit /\ ParIdle /\ MetaIdle /\ FwdIdle /\ DoIdle

Next == Deref \/ PreInc \/ PostInc \/ Assign

Spec == Init /\ [][Next]_vars

\* the adapter used from concurrent execution contexts
Load == (\E t \in Threads : ParLoad(t)) /\ UNCHANGED <<seqVars, metaVars, fwdVars, doVars>>

Construct == (\E t \in Threads : ParConstruct(t)) /\ UNCHANGED <<seqVars, metaVars, fwdVars, doVars>>

Store == (\E t \in Threads : ParStore(t)) /\ UNCHANGED <<seqVars, metaVars, fwdVars, doVars>>

InitPar == SeqInitWith(NumThreads) /\ ParInit /\ MetaIdle /\ FwdIdle /\ DoIdle

NextPar == Load \/ Construct \/ Store

SpecPar == InitPar /\ [][NextPar]_vars

\* the fold-expression helpers instantiated for a pack
CountIf == (\E P \in Predicates : EvalCountIf(P)) /\ UNCHANGED <<seqVars, parVars, fwdVars, doVars>>

ForEach == EvalForEach /\ UNCHANGED <<seqVars, parVars, fwdVars, doVars>>

ForEachTupleTypeArg == EvalForEachTupleTypeArg /\ UNCHANGED <<seqVars, parVars, fwdVars, doVars>>

ForEachTupleType == EvalForEachTupleType /\ UNCHANGED <<seqVars, parVars, fwdVars, doVars>>

Count == EvalCount /\ UNCHANGED <<seqVars, parVars, fwdVars, doVars>>

AllOf == (\E P \in Predicates : EvalAllOf(P)) /\ UNCHANGED <<seqVars, parVars, fwdVars, doVars>>

AnyOf == (\E P \in Predicates : EvalAnyOf(P)) /\ UNCHANGED <<seqVars, parVars, fwdVars, doVars>>

NoneOf == (\E P \in Predicates : EvalNoneOf(P)) /\ UNCHANGED <<seqVars, parVars, fwdVars, doVars>>

InitMeta == SeqInit /\ ParIdle /\ MetaInit /\ FwdIdle /\ DoIdle

NextMeta ==
    \/ CountIf \/ ForEach \/ ForEachTupleTypeArg \/ ForEachTupleType
    \/ Count \/ AllOf \/ AnyOf \/ NoneOf

SpecMeta == InitMeta /\ [][NextMeta]_vars

\* wrapper called with fn_object as an lvalue and as an rvalue
Write == (\E ch \in Chars : StreamWrite(ch)) /\ UNCHANGED <<seqVars, parVars, metaVars, doVars>>

WrapLvalue == CallWrapper("lvalue") /\ UNCHANGED <<seqVars, parVars, metaVars, doVars>>

WrapRvalue == CallWrapper("rvalue") /\ UNCHANGED <<seqVars, parVars, metaVars, doVars>>

InitFwd == SeqInit /\ ParIdle /\ MetaIdle /\ FwdInit /\ DoIdle

NextFwd == Write \/ WrapLvalue \/ WrapRvalue

SpecFwd == InitFwd /\ [][NextFwd]_vars

\* do_tasks_algorithm and do_tasks_for_loop called with the same count
Transform == TransformAssign /\ UNCHANGED <<parVars, metaVars, fwdVars>>

Increment == TransformIncrement /\ UNCHANGED <<parVars, metaVars, fwdVars>>

ForLoop == ForLoopBody /\ UNCHANGED <<parVars, metaVars, fwdVars>>

InitTasks ==
    /\ \E num_of_tasks \in 0..MaxNumOfTasks : SeqInitWith(num_of_tasks)
    /\ ParIdle /\ MetaIdle /\ FwdIdle /\ DoInit

NextTasks == Transform \/ Increment \/ ForLoop

SpecTasks == InitTasks /\ [][NextTasks]_vars

(***************************************************************************)
(* Properties of back_emplace_iterator.                                    *)
(***************************************************************************)
AllOk == \A k \in 1..Len(fed) : fed[k].ok

\* a step that is an assignment through some adapter
AssignStep == Len(fed') = Len(fed) + 1

\* the element the last successful assignment constructed
NewElement == bars[target][Len(bars[target])]

\* C1: N bundles assigned through the adapter into an initially empty
\* container, every construction succeeding, leave exactly N elements, the
\* i-th constructed from the i-th bundle.
C1_TransformFillsInOrder ==
    AllOk =>
        /\ Len(bars[target]) = Len(fed)
        /\ \A k \in 1..Len(fed) : \A I \in 1..Arity :
               bars[target][k][I].val = fed[k].vals[I]

C1_Witness ==
    /\ AllOk
    /\ Len(fed) >= 2
    /\ fed[1].vals # fed[2].vals
    /\ last.op = "preinc"

\* C2: a successful assignment grows the target container by exactly one
\* element, placed at the end and constructed from the bundle's elements in
\* declared order; every earlier element keeps its position and value.
C2_AssignAppendsOne ==
    [][(AssignStep /\ fed'[Len(fed')].ok) =>
          /\ Len(bars'[target]) = Len(bars[target]) + 1
          /\ SubSeq(bars'[target], 1, Len(bars[target])) = bars[target]
          /\ \A I \in 1..Arity :
                bars'[target][Len(bars'[target])][I].val = fed'[Len(fed')].vals[I]
          /\ \A c \in ContainerIds \ {target} : bars'[c] = bars[c]]_vars

C2_Witness ==
    /\ last.op = "assign"
    /\ ~last.threw
    /\ Len(bars[target]) >= 2

\* C3: when the element constructor throws, the error reaches the caller of
\* the assignment and the container is exactly as it was before.
C3_FailedAssignLeavesContainer ==
    [][(AssignStep /\ ~fed'[Len(fed')].ok) =>
          /\ bars' = bars
          /\ last'.op = "assign"
          /\ last'.threw]_vars

C3_Witness ==
    /\ last.op = "assign"
    /\ last.threw
    /\ Len(bars[target]) >= 1

\* C4: dereference, pre-increment and post-increment change neither the
\* container contents nor the container binding of any adapter.
C4_NoOpsAreNoOps ==
    [][(~AssignStep) =>
          /\ bars' = bars
          /\ tasks' = tasks
          /\ fed' = fed
          /\ \A i \in 1..Len(its) : its'[i] = its[i]
          /\ \A i \in 1..Len(its') : its'[i].m_container = its[1].m_container]_vars

C4_Witness ==
    /\ last.op = "preinc"
    /\ Len(its) >= 2
    /\ Len(bars[target]) >= 1
    /\ Len(fed) < MaxAssign

\* the last assignment succeeded with a temporary bundle: an rvalue tuple
\* holding values or rvalue references
TemporaryBundleAssigned ==
    /\ last.op = "assign"
    /\ ~last.threw
    /\ last.bundle.cat = "rvalue"
    /\ \A I \in 1..Arity : last.bundle.kind[I] \in {"value", "rref"}

\* C5: every element of a temporary bundle reaches the element constructor
\* as an rvalue: the constructed element observes a move on each argument.
C5_TemporariesAreMoved ==
    TemporaryBundleAssigned => \A I \in 1..Arity : NewElement[I].how = "move"

C5_Witness ==
    /\ TemporaryBundleAssigned
    /\ last.bundle.kind[1] = "value"
    /\ last.bundle.kind[2] = "rref"

\* the bundle only reads named external values: lvalue references, or
\* values copied into the bundle
ReadAccessBundle(b) == \A I \in 1..Arity : b.kind[I] \in {"lref", "value"}

\* C6 as stated: for a read-access bundle (lvalue references, or copies as
\* std::make_tuple makes them) the constructor sees every argument as
\* non-movable.
C6_ReadAccessSeenAsCopy ==
    (last.op = "assign" /\ ~last.threw /\ ReadAccessBundle(last.bundle)) =>
        \A I \in 1..Arity : NewElement[I].how = "copy"

\* C6 amended: for a read-access bundle the named strings are never
\* modified by the assignment, and every lvalue-reference element reaches
\* the constructor as an lvalue (copy); a value the bundle owns follows the
\* value category of the bundle itself.
C6_ReadAccessLeavesSources ==
    [][(AssignStep /\ ReadAccessBundle(last'.bundle)) =>
          /\ tasks' = tasks
          /\ fed'[Len(fed')].ok =>
                \A I \in 1..Arity :
                    /\ last'.bundle.kind[I] = "lref" =>
                          bars'[target][Len(bars'[target])][I].how = "copy"
                    /\ last'.bundle.kind[I] = "value" =>
                          bars'[target][Len(bars'[target])][I].how =
                             (IF last'.bundle.cat = "rvalue" THEN "move" ELSE "copy")]_vars

C6_Witness ==
    /\ last.op = "assign"
    /\ ~last.threw
    /\ last.bundle.cat = "rvalue"
    /\ last.bundle.kind[1] = "value"
    /\ last.bundle.kind[2] = "lref"
    /\ Len(fed) >= 2
    /\ tasks = get_tasks(NumTasks)

\* C7: every adapter, the original and each copy, stays bound to the
\* container the original was constructed with; assignment returns the
\* adapter itself, post-increment a copy bound to the same container; the
\* set of containers never changes and only that container ever grows.
C7_BoundToOneContainer ==
    /\ \A i \in 1..Len(its) : its[i].m_container = target
    /\ DOMAIN bars = ContainerIds
    /\ \A c \in ContainerIds \ {target} : bars[c] = <<>>
    /\ Len(bars[target]) = Cardinality({k \in 1..Len(fed) : fed[k].ok})
    /\ last.op = "assign" => last.ret = last.it
    /\ last.op = "postinc" =>
          /\ last.ret # last.it
          /\ its[last.ret].m_container = target

C7_Witness ==
    /\ last.op = "assign"
    /\ ~last.threw
    /\ last.it >= 2
    /\ Len(bars[target]) >= 2

\* the bundles whose construction succeeded, in the order they were assigned
Successful == SelectSeq(fed, LAMBDA f : f.ok)

\* C12: the adapter has no exhausted, closed or failed state: whatever
\* assignments failed before, every adapter still equals a freshly made one,
\* a further assignment is possible, and the container holds exactly the
\* elements of the successful assignments, in the order they were made.
C12_NoFailedState ==
    /\ \A i \in 1..Len(its) : its[i] = back_emplacer(target)
    /\ Len(fed) < MaxAssign => ENABLED Assign
    /\ Len(bars[target]) = Len(Successful)
    /\ \A k \in 1..Len(Successful) : \A I \in 1..Arity :
           bars[target][k][I].val = Successful[k].vals[I]

C12_Witness ==
    /\ Len(fed) >= 2
    /\ ~fed[1].ok
    /\ fed[2].ok
    /\ Len(bars[target]) = 1
    /\ last.op = "assign"

(***************************************************************************)
(* Properties of the adapter under a parallel execution policy.            *)
(***************************************************************************)
AllDone == \A t \in Threads : pc[t] = "done"

\* C8: when the assignments for the N input items run in concurrent
\* execution contexts through the adapter, the container ends with exactly
\* N elements, one constructed for each input item.
C8_ParallelFillsAll ==
    AllDone =>
        /\ Len(ParBars) = NumThreads
        /\ \A t \in Threads : \E k \in 1..Len(ParBars) :
               ParBars[k] = ProgressBar(std_apply(make_tuple(t)))

(***************************************************************************)
(* Properties of the fold-expression helpers.                              *)
(***************************************************************************)
\* the types for which the trace holds a call of Func<T>::operator()
Calls(trace) ==
    LET calls == SelectSeq(trace, LAMBDA e : e.ev = "call")
    IN [k \in 1..Len(calls) |-> calls[k].type]

\* C9: count_if<Predicate, Args...>() is the number of types of Args for
\* which Predicate holds, for every pack, the empty pack (0) included.
C9_CountIfCounts ==
    mres.fn = "count_if" =>
        /\ mres.result.well_formed
        /\ mres.result.value =
              Cardinality({k \in 1..Len(pack) : PredicateHolds(mres.predicate, pack[k])})

\* C10: for_each, for_each_tuple_type_arg and for_each_tuple_type each call
\* Func's function-call operator exactly once for every type, in
\* declaration order.
C10_ForEachCallsEveryType ==
    mres.fn \in {"for_each", "for_each_tuple_type_arg", "for_each_tuple_type"} =>
        Calls(mres.trace) = pack

\* the types of the pack for which the predicate holds
Holding(Predicate) == {k \in 1..Len(pack) : PredicateHolds(Predicate, pack[k])}

\* C14: all_of is true exactly when the predicate holds for every type of
\* the pack, any_of exactly when it holds for at least one, none_of is the
\* negation of any_of (so true, false, true on the empty pack), and count_if
\* equals count exactly when all_of is true, the empty pack included.
C14_QuantifiersAndCounts ==
    /\ mres.fn = "all_of" =>
          mres.result = WellFormed(Holding(mres.predicate) = 1..Len(pack))
    /\ mres.fn = "any_of" =>
          mres.result = WellFormed(Holding(mres.predicate) # {})
    /\ mres.fn = "none_of" =>
          /\ mres.result.well_formed
          /\ mres.result.value = ~any_of(mres.predicate, pack).value
    /\ mres.fn = "count" => mres.result = WellFormed(Len(pack))
    /\ mres.fn = "count_if" =>
          /\ mres.result.well_formed
          /\ (mres.result.value = count(pack).value)
                <=> all_of(mres.predicate, pack).value

(***************************************************************************)
(* Properties of wrapper.                                                  *)
(***************************************************************************)
\* C11: wrapper, forwarding its argument, invokes the overload of
\* operator() that matches the value category of the argument: the
\* rvalue-qualified one for an rvalue function object, the lvalue-qualified
\* one for an lvalue function object, which leaves the stored value
\* unmodified; either returns the stored characters.
C11_WrapperCallsMatchingOverload ==
    /\ wres.arg = "rvalue" =>
          /\ wres.overload = "rvalue"
          /\ wres.result = wres.before
    /\ wres.arg = "lvalue" =>
          /\ wres.overload = "lvalue"
          /\ wres.result = wres.before
          /\ value = wres.before

C11_Witness ==
    /\ wres.arg = "rvalue"
    /\ wres.overload = "rvalue"
    /\ Len(wres.before) >= 2
    /\ value = <<>>

(***************************************************************************)
(* Properties of the two do_tasks functions.                               *)
(***************************************************************************)
\* the number a decimal digit stands for
DigitValue(ch) == CHOOSE d \in 0..9 : Digit(d) = ch

\* the number a string of decimal digits stands for
RECURSIVE DecimalValue(_)
DecimalValue(s) ==
    IF s = <<>> THEN 0
    ELSE 10 * DecimalValue(SubSeq(s, 1, Len(s) - 1)) + DigitValue(s[Len(s)])

\* name is "task" followed by the decimal numeral of i, without leading zeros
IsTaskName(name, i) ==
    /\ Len(name) >= 5
    /\ SubSeq(name, 1, 4) = <<"t", "a", "s", "k">>
    /\ \A k \in 5..Len(name) : \E d \in 0..9 : Digit(d) = name[k]
    /\ DecimalValue(SubSeq(name, 5, Len(name))) = i
    /\ (Len(name) > 5 => name[5] # "0")

BothDone == tpc = "done" /\ loop > Len(tasks)

\* C13: for every task count n, do_tasks_algorithm builds the same container
\* as do_tasks_for_loop: n elements, in the same order, the k-th constructed
\* from (std::cout.rdbuf(), "task<k-1>").
C13_AlgorithmEqualsForLoop ==
    BothDone =>
        /\ Len(bars[target]) = Len(tasks)
        /\ Len(bars[LoopBars]) = Len(tasks)
        /\ \A k \in 1..Len(tasks) :
              /\ \A I \in 1..Arity : bars[target][k][I].val = bars[LoopBars][k][I].val
              /\ bars[LoopBars][k][1].val = cout_rdbuf
              /\ IsTaskName(bars[LoopBars][k][2].val, k - 1)

C13_Witness ==
    /\ BothDone
    /\ Len(tasks) >= 3
    /\ Len(bars[target]) = Len(tasks)
    /\ bars[LoopBars][1] # bars[target][1]

====
